---- MODULE Spec2Model ----
(***************************************************************************)
(* Model of the recoil controller's real-time core:                        *)
(*   - RecoilEngine (src/core/engine.py): the polling loop thread, the     *)
(*     trigger-key helpers _ensure_trigger_down / release_trigger, and the *)
(*     lifecycle and rebind methods start / stop / set_trigger_key;        *)
(*   - State (src/app.py): the runtime flags and the synth guard counter;  *)
(*   - the callers in RecoilControllerApp (src/app.py) that run on the UI  *)
(*     thread and on the mouse-observer thread.                            *)
(*                                                                         *)
(* The engine holds no lock.  Every read and every write of a shared       *)
(* attribute, and every backend call, is a step of its own, so that the    *)
(* threads interleave between any two of them (CPython switches threads    *)
(* between bytecodes, and the backend calls release the interpreter lock). *)
(* A program counter value is the source line the thread is about to run.  *)
(***************************************************************************)
EXTENDS Integers, Sequences, FiniteSets, TLC

VARIABLES
    \* ---- State (src/app.py:127-140)
    fire_enabled, press_key_enabled, right_hold, left_hold, synth_guard,
    \* ---- RecoilEngine attributes (src/core/engine.py:49-56)
    running, trigger_key, trigger_held,
    \* ---- the operating system, as driven through the backend
    keysDown,      \* keys that are physically down: key_down adds, key_up removes
    nDown, nUp,    \* number of key_down / key_up calls made so far (up to MaxEv)
    \* ---- locals of RecoilEngine._loop (src/core/engine.py:199-220)
    should_fire, s_press, shooting, count, start_time,
    \* ---- locals of the UI thread inside set_trigger_key
    c_key, c_old, c_was_held,
    \* ---- control: program counter and return address of each thread
    pc, ret,
    \* ---- callers of State.begin_synth / end_synth
    gpc, gtmp, nBegin, nEnd, open, calls,
    \* ---- State.auto_click_enabled (src/app.py:131)
    auto_click_enabled,
    \* ---- AutoClickThread attributes (src/core/engine.py:298-302)
    click_running, clicking, synthing, hold_shadow,
    synth_age,     \* perf_counter() - _last_synth_ts, in ms, up to MaxAge
    \* ---- locals of AutoClickThread.run (src/core/engine.py:358-362)
    auto_enabled, user_hold, physical_hold,
    now_age,       \* now - _last_synth_ts for the now of line 362
    \* ---- the call of click_once that is under way
    k_exc,         \* an exception is on its way through the finally block
    g0,            \* the guard's depth when click_once was entered
    k_inc, k_dec,  \* increments / decrements of the guard made by the call
    clicks,        \* synthetic button-down events issued (up to MaxClicks)
    \* ---- control of the click thread and of the UI thread's click calls
    kpc, upc, uret,
    \* ---- the left button: the user's finger and the system's key state
    finger, btnDown,
    \* ---- backend calls of the engine loop that have failed
    faults,
    \* ---- one shooting tick (src/core/engine.py:240-271)
    tpc, cfg, calc, elapsed, pull,
    moved, dy,     \* move_mouse was called in this tick, with (0, dy)
    slept,         \* milliseconds slept at the end of this tick
    tick_err,      \* the errors logged in this tick
    current_weapon,   \* State.current_weapon: {} for None, else {profile}
    \* ---- AutoClickThread._delay_ms / _rand_ms and their writer and reader
    thr_delay_ms, thr_rand_ms,
    u_rand, upd_pc,          \* update_click_params on the UI thread
    d_base, d_lo, d_hi,      \* the operands of line 376 as they were read
    d_delay, dpc,            \* the inter-click sleep computed, in ms
    \* ---- the choice of the input backend (src/core/engine.py:17-22, 58-115)
    b_arg,                   \* the backend argument of RecoilEngine
    win_ok, pynput_ok,       \* ctypes.windll exists / pynput can be imported
    ctor_ok,                 \* pynput's controllers can be constructed
    has_backends, backend, bpc,
    \* ---- the loop threads that start() has created, by number
    lpc,                     \* where each of them is
    l_thread,                \* RecoilEngine._thread: 0 for None
    \* ---- the plugin file and PluginManager.weapons (src/app.py:70-121)
    plug_file, weapons,
    \* ---- the user's finger on the right button
    finger_r

stateVars == <<fire_enabled, press_key_enabled, right_hold, left_hold>>
engVars   == <<running, trigger_key, trigger_held>>
osVars    == <<keysDown, nDown, nUp>>
loopVars  == <<should_fire, s_press, shooting, count, start_time>>
ctlVars   == <<c_key, c_old, c_was_held>>
synthVars == <<synth_guard, gpc, gtmp, nBegin, nEnd, open, calls>>
clickAttrs  == <<click_running, clicking, synthing, hold_shadow, synth_age>>
clickLocals == <<auto_enabled, user_hold, physical_hold, now_age>>
clickGhost  == <<k_exc, g0, k_inc, k_dec, clicks>>
uiVars      == <<upc, uret>>
clickVars == <<auto_click_enabled, clickAttrs, clickLocals, clickGhost, kpc,
               uiVars, finger, btnDown>>
tickVars  == <<tpc, cfg, calc, elapsed, pull, moved, dy, slept, tick_err,
               current_weapon>>
delayVars == <<thr_delay_ms, thr_rand_ms, u_rand, upd_pc, d_base, d_lo, d_hi,
               d_delay, dpc>>
backendVars == <<b_arg, win_ok, pynput_ok, ctor_ok, has_backends, backend,
                 bpc>>
lifeVars  == <<lpc, l_thread>>
plugVars  == <<plug_file, weapons>>
sideVars  == <<delayVars, backendVars, lifeVars, plugVars, finger_r>>
extVars   == <<clickVars, faults, tickVars, sideVars>>
vars == <<stateVars, engVars, osVars, loopVars, ctlVars, pc, ret, synthVars,
         extVars>>

(***************************************************************************)
(* Bounds of the model.                                                    *)
(***************************************************************************)
MaxCount == 1     \* the tick counter of a session is followed up to here
MaxNow   == 1     \* the largest reading of the clock
MaxEv    == 2     \* key events are counted up to here
MaxCalls == 6     \* calls of begin_synth / end_synth that are made
MaxAge    == 31   \* synth_age is followed up to here
MaxClicks == 2    \* synthetic clicks are counted up to here
MaxFaults == 2    \* backend calls of the engine loop that fail
MaxThreads == 4   \* the loop threads that are followed
MaxTicks  == 20   \* ticks of a session that are followed in detail

Min(a, b) == IF a < b THEN a ELSE b

\* The engine loop thread and the UI (controller) thread.
Threads == {"L", "C"}
\* Callers of the synth guard.
GuardThreads == {1, 2}

Keys == {"p", "q"}

(***************************************************************************)
(* set_trigger_key's normalisation of its argument, lines 142-147.  A raw  *)
(* argument is a sequence of one-character strings.                        *)
(***************************************************************************)
RawKeys == {<<>>, <<" ">>, <<"p">>, <<"P">>, <<"q">>, <<"Q", "x">>}

Lower(ch) == CASE ch = "P" -> "p" [] ch = "Q" -> "q" [] OTHER -> ch

IsBlank(ch) == ch = " "

NormKey(raw) ==
    LET k1 == IF Len(raw) = 0 THEN <<"p">> ELSE raw       \* 142-143
        k2 == k1[1]                                        \* 144
        k3 == IF IsBlank(k2) THEN "p" ELSE k2              \* 145-146
    IN  Lower(k3)                                          \* 147

(***************************************************************************)
(* Control transfer.                                                       *)
(***************************************************************************)
Goto(t, target) == /\ pc' = [pc EXCEPT ![t] = target]
                   /\ UNCHANGED ret

Call(t, target, back) == /\ pc' = [pc EXCEPT ![t] = target]
                         /\ ret' = [ret EXCEPT ![t] = back]

Return(t) == /\ pc' = [pc EXCEPT ![t] = ret[t]]
             /\ ret' = [ret EXCEPT ![t] = "none"]

(***************************************************************************)
(* The backend: key_down / key_up on the operating system's key state.     *)
(* The backend calls are taken to succeed here.                            *)
(***************************************************************************)
BackendKeyDown(k) == /\ keysDown' = keysDown \cup {k}
                     /\ nDown' = Min(nDown + 1, MaxEv)
                     /\ UNCHANGED nUp

BackendKeyUp(k) == /\ keysDown' = keysDown \ {k}
                   /\ nUp' = Min(nUp + 1, MaxEv)
                   /\ UNCHANGED nDown

(***************************************************************************)
(* RecoilEngine._ensure_trigger_down, lines 158-165, run by thread t.      *)
(***************************************************************************)
\* A faulty variant: the early return of line 159-160 is missing.
EnsureCheck_NoGuard(t) ==
    /\ pc[t] = "E159"
    /\ Goto(t, "E162")
    /\ UNCHANGED <<stateVars, engVars, osVars, loopVars, ctlVars, synthVars,
                   extVars>>

EnsureCheck(t) ==                                          \* 159-160
    /\ pc[t] = "E159"
    /\ IF trigger_held THEN Return(t) ELSE Goto(t, "E162")
    /\ UNCHANGED <<stateVars, engVars, osVars, loopVars, ctlVars, synthVars,
                   extVars>>

EnsureKeyDown(t) ==                                        \* 162
    /\ pc[t] = "E162"
    /\ BackendKeyDown(trigger_key)
    /\ Goto(t, "E163")
    /\ UNCHANGED <<stateVars, engVars, loopVars, ctlVars, synthVars,
                   extVars>>

EnsureSet(t) ==                                            \* 163
    /\ pc[t] = "E163"
    /\ trigger_held' = TRUE
    /\ Return(t)
    /\ UNCHANGED <<stateVars, running, trigger_key, osVars, loopVars, ctlVars,
                   synthVars, extVars>>

(***************************************************************************)
(* RecoilEngine.release_trigger, lines 167-176, run by thread t.           *)
(***************************************************************************)
\* A faulty variant: the early return of line 169-170 is missing.
ReleaseCheck_NoGuard(t) ==
    /\ pc[t] = "R169"
    /\ Goto(t, "R172")
    /\ UNCHANGED <<stateVars, engVars, osVars, loopVars, ctlVars, synthVars,
                   extVars>>

ReleaseCheck(t) ==                                         \* 169-170
    /\ pc[t] = "R169"
    /\ IF ~trigger_held THEN Return(t) ELSE Goto(t, "R172")
    /\ UNCHANGED <<stateVars, engVars, osVars, loopVars, ctlVars, synthVars,
                   extVars>>

ReleaseKeyUp(t) ==                                         \* 172
    /\ pc[t] = "R172"
    /\ BackendKeyUp(trigger_key)
    /\ Goto(t, "R176")
    /\ UNCHANGED <<stateVars, engVars, loopVars, ctlVars, synthVars,
                   extVars>>

ReleaseSet(t) ==                                           \* 175-176
    /\ pc[t] = "R176"
    /\ trigger_held' = FALSE
    /\ Return(t)
    /\ UNCHANGED <<stateVars, running, trigger_key, osVars, loopVars, ctlVars,
                   synthVars, extVars>>

TriggerStep(t) == \/ EnsureCheck(t)
                  \/ EnsureKeyDown(t)
                  \/ EnsureSet(t)
                  \/ ReleaseCheck(t)
                  \/ ReleaseKeyUp(t)
                  \/ ReleaseSet(t)

\* Thread t is inside one of the two trigger helpers.
InHelper(t) == pc[t] \in {"E159", "E162", "E163", "R169", "R172", "R176"}

(***************************************************************************)
(* time.perf_counter(): a positive reading that the scheduling decides.    *)
(* time.sleep changes no state: what the other threads do meanwhile is     *)
(* their own steps.                                                        *)
(***************************************************************************)
PerfCounter == 1..MaxNow

(***************************************************************************)
(* RecoilEngine._loop, lines 194-287.                                      *)
(***************************************************************************)
LoopEnter ==                                               \* 199-201
    /\ pc["L"] = "L199"
    /\ count' = 0
    /\ shooting' = FALSE
    /\ start_time' = 0
    /\ Goto("L", "L203")
    /\ UNCHANGED <<stateVars, engVars, osVars, should_fire, s_press, ctlVars,
                   synthVars, extVars>>

LoopWhile ==                                               \* 203, 287
    /\ pc["L"] = "L203"
    /\ IF running THEN Goto("L", "L205") ELSE Call("L", "R169", "done")
    /\ UNCHANGED <<stateVars, engVars, osVars, loopVars, ctlVars, synthVars,
                   extVars>>

LoopSample ==                                              \* 204-220
    /\ pc["L"] = "L205"
    /\ should_fire' = (fire_enabled /\ right_hold /\ left_hold)
    /\ s_press' = press_key_enabled
    /\ Goto("L", "L221")
    /\ UNCHANGED <<stateVars, engVars, osVars, shooting, count, start_time,
                   ctlVars, synthVars, extVars>>

LoopPressOff ==                                            \* 221-222
    /\ pc["L"] = "L221"
    /\ IF ~s_press /\ trigger_held
          THEN Call("L", "R169", "L225")
          ELSE Goto("L", "L225")
    /\ UNCHANGED <<stateVars, engVars, osVars, loopVars, ctlVars, synthVars,
                   extVars>>

LoopBegin ==                                               \* 225-232
    /\ pc["L"] = "L225"
    /\ IF should_fire /\ ~shooting
          THEN /\ shooting' = TRUE
               /\ count' = 0
               /\ start_time' \in PerfCounter
               /\ IF s_press THEN Call("L", "E159", "L235") ELSE Goto("L", "L235")
          ELSE /\ Goto("L", "L235")
               /\ UNCHANGED <<shooting, count, start_time>>
    /\ UNCHANGED <<stateVars, engVars, osVars, should_fire, s_press, ctlVars,
                   synthVars, extVars>>

\* A faulty variant: a session that goes on ticks whatever was sampled.
LoopHold_AnyShooting ==
    /\ pc["L"] = "L235"
    /\ IF shooting
          THEN IF s_press THEN Call("L", "E159", "L240")
                          ELSE Call("L", "R169", "L240")
          ELSE Goto("L", "L274")
    /\ UNCHANGED <<stateVars, engVars, osVars, loopVars, ctlVars, synthVars,
                   extVars>>

LoopHold ==                                                \* 235-239
    /\ pc["L"] = "L235"
    /\ IF shooting /\ should_fire
          THEN IF s_press THEN Call("L", "E159", "L240")
                          ELSE Call("L", "R169", "L240")
          ELSE Goto("L", "L274")
    /\ UNCHANGED <<stateVars, engVars, osVars, loopVars, ctlVars, synthVars,
                   extVars>>

LoopTick ==                                                \* 240-271
    /\ pc["L"] = "L240"
    /\ count' = Min(count + 1, MaxCount)
    /\ Goto("L", "L274")
    /\ UNCHANGED <<stateVars, engVars, osVars, should_fire, s_press, shooting,
                   start_time, ctlVars, synthVars, extVars>>

\* A faulty variant: the key is released on exit only if press_key_enabled
\* was sampled true.
LoopEnd_PressOnly ==
    /\ pc["L"] = "L274"
    /\ IF shooting /\ ~should_fire
          THEN /\ shooting' = FALSE
               /\ count' = 0
               /\ start_time' = 0
               /\ IF s_press THEN Call("L", "R169", "L282") ELSE Goto("L", "L282")
          ELSE /\ Goto("L", "L282")
               /\ UNCHANGED <<shooting, count, start_time>>
    /\ UNCHANGED <<stateVars, engVars, osVars, should_fire, s_press, ctlVars,
                   synthVars, extVars>>

\* A faulty variant: a session is never ended.
LoopEnd_StaysShooting ==
    /\ pc["L"] = "L274"
    /\ Goto("L", "L282")
    /\ UNCHANGED <<stateVars, engVars, osVars, loopVars, ctlVars, synthVars,
                   extVars>>

LoopEnd ==                                                 \* 274-279
    /\ pc["L"] = "L274"
    /\ IF shooting /\ ~should_fire
          THEN /\ shooting' = FALSE
               /\ count' = 0
               /\ start_time' = 0
               /\ Call("L", "R169", "L282")
          ELSE /\ Goto("L", "L282")
               /\ UNCHANGED <<shooting, count, start_time>>
    /\ UNCHANGED <<stateVars, engVars, osVars, should_fire, s_press, ctlVars,
                   synthVars, extVars>>

LoopIdle ==                                                \* 282-284
    /\ pc["L"] = "L282"
    /\ Goto("L", "L203")
    /\ UNCHANGED <<stateVars, engVars, osVars, loopVars, ctlVars, synthVars,
                   extVars>>

LoopNext == \/ LoopEnter
            \/ LoopWhile
            \/ LoopSample
            \/ LoopPressOff
            \/ LoopBegin
            \/ LoopHold
            \/ LoopTick
            \/ LoopEnd
            \/ LoopIdle
            \/ TriggerStep("L")

(***************************************************************************)
(* The UI thread: RecoilEngine.start / stop / set_trigger_key and the      *)
(* setters of RecoilControllerApp that call into the engine.               *)
(***************************************************************************)
CtlStart ==                                                \* 120-127
    /\ pc["C"] = "idle"
    /\ IF running
          THEN UNCHANGED <<running, pc>>
          ELSE /\ running' = TRUE
               /\ pc' = [pc EXCEPT !["L"] = "L199"]
    /\ UNCHANGED <<stateVars, trigger_key, trigger_held, osVars, loopVars,
                   ctlVars, ret, synthVars, extVars>>

CtlStop ==                                                 \* 129-132
    /\ pc["C"] = "idle"
    /\ running' = FALSE
    /\ Call("C", "R169", "T133")
    /\ UNCHANGED <<stateVars, trigger_key, trigger_held, osVars, loopVars,
                   ctlVars, synthVars, extVars>>

\* join returns once the loop thread has ended; stop() is called here only
\* with a loop that ends within the join timeout.
CtlJoin ==                                                 \* 133-137
    /\ pc["C"] = "T133"
    /\ pc["L"] \in {"none", "done"}
    /\ Goto("C", "T138")
    /\ UNCHANGED <<stateVars, engVars, osVars, loopVars, ctlVars, synthVars,
                   extVars>>

CtlStopped ==                                              \* 138
    /\ pc["C"] = "T138"
    /\ Goto("C", "idle")
    /\ UNCHANGED <<stateVars, engVars, osVars, loopVars, ctlVars, synthVars,
                   extVars>>

\* c_old remembers the key that was bound when set_trigger_key was entered.
CtlSetTriggerKey ==                                        \* 140-152
    /\ pc["C"] = "idle"
    /\ \E raw \in RawKeys :
          LET key == NormKey(raw) IN
          IF key = trigger_key
             THEN UNCHANGED <<ctlVars, pc, ret>>
             ELSE /\ c_key' = key
                  /\ c_old' = trigger_key
                  /\ c_was_held' = trigger_held
                  /\ IF trigger_held THEN Call("C", "R169", "K153")
                                     ELSE Goto("C", "K153")
    /\ UNCHANGED <<stateVars, engVars, osVars, loopVars, synthVars, extVars>>

CtlRebind ==                                               \* 153-155
    /\ pc["C"] = "K153"
    /\ trigger_key' = c_key
    /\ IF c_was_held THEN Call("C", "E159", "K156") ELSE Goto("C", "K156")
    /\ UNCHANGED <<stateVars, running, trigger_held, osVars, loopVars, ctlVars,
                   synthVars, extVars>>

CtlRebound ==                                              \* 156
    /\ pc["C"] = "K156"
    /\ c_key' = "p"
    /\ c_old' = "p"
    /\ c_was_held' = FALSE
    /\ Goto("C", "idle")
    /\ UNCHANGED <<stateVars, engVars, osVars, loopVars, synthVars, extVars>>

CtlSetFire ==                                              \* app.py 741-756
    /\ pc["C"] = "idle"
    /\ \E value \in BOOLEAN :
          IF fire_enabled = value
             THEN UNCHANGED <<fire_enabled, pc, ret>>
             ELSE /\ fire_enabled' = value
                  /\ IF ~value THEN Call("C", "R169", "idle")
                               ELSE UNCHANGED <<pc, ret>>
    /\ UNCHANGED <<press_key_enabled, right_hold, left_hold, engVars, osVars,
                   loopVars, ctlVars, synthVars, extVars>>

CtlSetPress ==                                             \* app.py 812-827
    /\ pc["C"] = "idle"
    /\ \E value \in BOOLEAN :
          IF press_key_enabled = value
             THEN UNCHANGED <<press_key_enabled, pc, ret>>
             ELSE /\ press_key_enabled' = value
                  /\ IF ~value THEN Call("C", "R169", "idle")
                               ELSE UNCHANGED <<pc, ret>>
    /\ UNCHANGED <<fire_enabled, right_hold, left_hold, engVars, osVars,
                   loopVars, ctlVars, synthVars, extVars>>

CtlNext == \/ CtlStart
           \/ CtlStop
           \/ CtlJoin
           \/ CtlStopped
           \/ CtlSetTriggerKey
           \/ CtlRebind
           \/ CtlRebound
           \/ CtlSetFire
           \/ CtlSetPress
           \/ TriggerStep("C")

\* The calls of the UI thread that end in release_trigger(): stop(),
\* set_fire_enabled(False) and set_press_key_enabled(False); the trigger key
\* is not rebound.
CtlReleaseNext == \/ CtlStart
                  \/ CtlStop
                  \/ CtlJoin
                  \/ CtlStopped
                  \/ CtlSetFire
                  \/ CtlSetPress
                  \/ ReleaseCheck("C")
                  \/ ReleaseKeyUp("C")
                  \/ ReleaseSet("C")

(***************************************************************************)
(* State.is_synth and the mouse observer's callback.                       *)
(***************************************************************************)
is_synth == synth_guard > 0                                \* app.py 149-150

\* A faulty variant: the callback does not ask is_synth().
OnMouse_NoFilter(btn, pressed) ==
    /\ CASE btn = "right" -> /\ right_hold' = pressed
                             /\ UNCHANGED left_hold
         [] btn = "left"  -> /\ left_hold' = pressed
                             /\ UNCHANGED right_hold
         [] OTHER         -> UNCHANGED <<right_hold, left_hold>>
    /\ UNCHANGED <<fire_enabled, press_key_enabled, engVars, osVars, loopVars,
                   ctlVars, pc, ret, synthVars, extVars>>

OnMouse(btn, pressed) ==                                   \* app.py 907-913
    /\ IF is_synth
          THEN UNCHANGED <<right_hold, left_hold>>
          ELSE CASE btn = "right" -> /\ right_hold' = pressed
                                     /\ UNCHANGED left_hold
                 [] btn = "left"  -> /\ left_hold' = pressed
                                     /\ UNCHANGED right_hold
                 [] OTHER         -> UNCHANGED <<right_hold, left_hold>>
    /\ UNCHANGED <<fire_enabled, press_key_enabled, engVars, osVars, loopVars,
                   ctlVars, pc, ret, synthVars, extVars>>

Buttons == {"left", "right", "middle"}

MouseNext == \E btn \in Buttons, pressed \in BOOLEAN : OnMouse(btn, pressed)

(***************************************************************************)
(* The engine with its UI thread and the mouse observer.                   *)
(***************************************************************************)
InitGuard == /\ synth_guard = 0
             /\ gpc = [t \in GuardThreads |-> "idle"]
             /\ gtmp = [t \in GuardThreads |-> 0]
             /\ nBegin = 0
             /\ nEnd = 0
             /\ open = 0
             /\ calls = 0

InitEngine(key) ==
              /\ trigger_key = key
              /\ trigger_held = FALSE
              /\ keysDown = {}
              /\ nDown = 0
              /\ nUp = 0
              /\ should_fire = FALSE
              /\ s_press = TRUE
              /\ shooting = FALSE
              /\ count = 0
              /\ start_time = 0
              /\ c_key = "p"
              /\ c_old = "p"
              /\ c_was_held = FALSE
              /\ ret = [t \in Threads |-> "none"]

\* The click thread as constructed (src/core/engine.py 291-302), with
\* State.auto_click_enabled as the settings left it (app.py 131, 675).
InitClick(auto) ==
    /\ auto_click_enabled = auto
    /\ click_running = TRUE
    /\ clicking = FALSE
    /\ synthing = FALSE
    /\ hold_shadow = FALSE
    /\ synth_age = MaxAge
    /\ auto_enabled = FALSE
    /\ user_hold = FALSE
    /\ physical_hold = FALSE
    /\ now_age = 0
    /\ k_exc = FALSE
    /\ g0 = 0
    /\ k_inc = 0
    /\ k_dec = 0
    /\ clicks = 0
    /\ kpc = "K357"
    /\ upc = "idle"
    /\ uret = "idle"
    /\ finger = FALSE
    /\ btnDown = FALSE

InitFaults == faults = 0

\* The profile that WeaponConfig's defaults make (src/core/plugin_api.py).
DefaultProfile == [name |-> "Default",
                   defaultPull |-> 20, initialDuration |-> 500,
                   steadyPull |-> 16, sleepTime |-> 8, acceleration |-> 2000]

\* Profiles that a plugin file can hold (app.py 105-115).
Profiles == {[name |-> "plain",
              defaultPull |-> 20, initialDuration |-> 500, steadyPull |-> 16,
              sleepTime |-> 8, acceleration |-> 2000],
             [name |-> "flat",
              defaultPull |-> 20, initialDuration |-> 500, steadyPull |-> 16,
              sleepTime |-> 0, acceleration |-> 0],
             [name |-> "up",
              defaultPull |-> 0 - 5, initialDuration |-> 100,
              steadyPull |-> 0 - 12, sleepTime |-> 3, acceleration |-> 5],
             [name |-> "heavy",
              defaultPull |-> 39, initialDuration |-> 600, steadyPull |-> 45,
              sleepTime |-> 1, acceleration |-> 0 - 40]}

\* State.current_weapon: None is {}, a selected profile p is {p}.  It is
\* None until a plugin file is loaded and again after a reload that finds
\* no profile (app.py 878-890).
Weapons == {{}} \cup {{p} : p \in Profiles}

\* What the loop takes for cfg: "x or WeaponConfig(name="Default")", in the
\* accessor that the application passes (app.py 634) and in the loop (206).
GetWeapon_FirstProfile(w) ==
    IF w = {} THEN CHOOSE p \in Profiles : p.name = "heavy"
    ELSE CHOOSE p \in w : TRUE

GetWeapon(w) == IF w = {} THEN DefaultProfile ELSE CHOOSE p \in w : TRUE

\* The tick of a loop while the selection is w and the custom function f.
InitTickWith(w, f) ==
    /\ tpc = "T240"
    /\ current_weapon = w
    /\ weapons = IF w = {} THEN <<>> ELSE <<GetWeapon(w)>>
    /\ plug_file = [readable |-> TRUE, items |-> weapons]
    /\ cfg = GetWeapon(w)
    /\ calc = f
    /\ elapsed = 0
    /\ pull = [n |-> 0, d |-> 1]
    /\ moved = FALSE
    /\ dy = 0
    /\ slept = 0
    /\ tick_err = {}

InitTick == InitTickWith({}, "none")

\* The click parameters of a fresh installation.
delay_ms    == 20      \* app.py 612
rand_ms     == 20      \* app.py 613

\* The click parameters d and r as the thread's constructor receives them.
InitDelayWith(d, r) ==
    /\ thr_delay_ms = d
    /\ thr_rand_ms = r
    /\ u_rand = 0
    /\ upd_pc = "idle"
    /\ d_base = 0
    /\ d_lo = 0
    /\ d_hi = 0
    /\ d_delay = 0
    /\ dpc = "D376"

\* The engine module is about to be imported on a host where the pieces
\* are available as w, p and c say, for an engine built with backend=a.
InitBackendWith(a, w, p, c) ==
    /\ b_arg = a
    /\ win_ok = w
    /\ pynput_ok = p
    /\ ctor_ok = c
    /\ has_backends = FALSE
    /\ backend = "none"
    /\ bpc = "B17"

InitDelay == InitDelayWith(delay_ms, rand_ms)

\* The application asks for "winapi" (app.py 637).
InitBackend == InitBackendWith("winapi", TRUE, TRUE, TRUE)

\* No loop thread has been created yet (engine.py 50).
InitLife == /\ lpc = [t \in 1..MaxThreads |-> "unborn"]
            /\ l_thread = 0

InitSide == /\ InitDelay
            /\ InitBackend
            /\ InitLife
            /\ finger_r = FALSE

\* The click thread, the fault count and the tick as they are while the
\* application is looked at from the engine's side.
InitExt == /\ InitClick(FALSE)
           /\ InitFaults
           /\ InitTick
           /\ InitSide

Init == /\ fire_enabled = TRUE
        /\ press_key_enabled = TRUE
        /\ right_hold = FALSE
        /\ left_hold = FALSE
        /\ InitGuard
        /\ InitEngine("p")
        /\ running = FALSE
        /\ pc = [t \in Threads |-> IF t = "L" THEN "none" ELSE "idle"]
        /\ InitExt

Next == \/ LoopNext
        \/ CtlNext
        \/ MouseNext

Spec == Init /\ [][Next]_vars

NextRelease == \/ LoopNext
               \/ CtlReleaseNext
               \/ MouseNext

SpecRelease == Init /\ [][NextRelease]_vars

(***************************************************************************)
(* The engine loop alone.  The engine has been started, the settings have  *)
(* set fire_enabled, press_key_enabled and the trigger key (app.py 632-640)*)
(* and the mouse observer is the only other thread: nothing but the loop   *)
(* calls the trigger helpers.                                              *)
(***************************************************************************)
\* The construction of RecoilControllerApp has run (app.py 605-653).
InitApp == /\ fire_enabled \in BOOLEAN
           /\ press_key_enabled \in BOOLEAN
           /\ right_hold = FALSE
           /\ left_hold = FALSE
           /\ InitGuard
           /\ \E key \in Keys : InitEngine(key)
           /\ running = TRUE
           /\ pc = [t \in Threads |-> IF t = "L" THEN "L199" ELSE "idle"]
           /\ InitExt

NextSolo == \/ LoopNext
            \/ MouseNext

SpecSolo == InitApp /\ [][NextSolo]_vars

(***************************************************************************)
(* Scenario B.  The engine has been started with fire_enabled, right_hold, *)
(* left_hold and press_key_enabled all true; the only event is the user    *)
(* letting go of the left button.                                          *)
(***************************************************************************)
InitB == /\ fire_enabled = TRUE
         /\ press_key_enabled = TRUE
         /\ right_hold = TRUE
         /\ left_hold = TRUE
         /\ InitGuard
         /\ \E key \in Keys : InitEngine(key)
         /\ running = TRUE
         /\ pc = [t \in Threads |-> IF t = "L" THEN "L199" ELSE "idle"]
         /\ InitExt

LeftRelease == /\ left_hold
               /\ OnMouse("left", FALSE)

NextB == \/ LoopNext
         \/ LeftRelease

SpecB == InitB /\ [][NextB]_vars

(***************************************************************************)
(* State.begin_synth / end_synth, app.py 142-147, called by thread t.      *)
(* "+= 1" and "-= 1" on an attribute are a read followed by a write.       *)
(* nBegin counts the begins that have completed, nEnd the ends that have   *)
(* completed a decrement; open is what the contract prescribes: a begin    *)
(* opens one window, an end closes one if any is open.                     *)
(***************************************************************************)
Max(a, b) == IF a > b THEN a ELSE b

\* Everything but the guard and its callers.
otherVars == <<stateVars, engVars, osVars, loopVars, ctlVars, pc, ret, extVars>>

GSet(t, target) == gpc' = [gpc EXCEPT ![t] = target]

GBeginCall(t) ==
    /\ gpc[t] = "idle"
    /\ calls < MaxCalls
    /\ calls' = calls + 1
    /\ GSet(t, "B143r")
    /\ UNCHANGED <<synth_guard, gtmp, nBegin, nEnd, open, otherVars>>

GBeginRead(t) ==                                           \* 143, the read
    /\ gpc[t] = "B143r"
    /\ gtmp' = [gtmp EXCEPT ![t] = synth_guard]
    /\ GSet(t, "B143w")
    /\ UNCHANGED <<synth_guard, nBegin, nEnd, open, calls, otherVars>>

GBeginWrite(t) ==                                          \* 143, the write
    /\ gpc[t] = "B143w"
    /\ synth_guard' = gtmp[t] + 1
    /\ nBegin' = nBegin + 1
    /\ open' = open + 1
    /\ gtmp' = [gtmp EXCEPT ![t] = 0]
    /\ GSet(t, "idle")
    /\ UNCHANGED <<nEnd, calls, otherVars>>

GEndCall(t) ==
    /\ gpc[t] = "idle"
    /\ calls < MaxCalls
    /\ calls' = calls + 1
    /\ GSet(t, "E146")
    /\ UNCHANGED <<synth_guard, gtmp, nBegin, nEnd, open, otherVars>>

\* A faulty variant: the test of line 146 is missing.
GEndCheck_NoGuard(t) ==
    /\ gpc[t] = "E146"
    /\ GSet(t, "E147r")
    /\ UNCHANGED <<synth_guard, gtmp, nBegin, nEnd, open, calls, otherVars>>

GEndCheck(t) ==                                            \* 146
    /\ gpc[t] = "E146"
    /\ IF synth_guard > 0
          THEN /\ GSet(t, "E147r")
               /\ UNCHANGED open
          ELSE /\ GSet(t, "idle")
               /\ open' = Max(open - 1, 0)
    /\ UNCHANGED <<synth_guard, gtmp, nBegin, nEnd, calls, otherVars>>

GEndRead(t) ==                                             \* 147, the read
    /\ gpc[t] = "E147r"
    /\ gtmp' = [gtmp EXCEPT ![t] = synth_guard]
    /\ GSet(t, "E147w")
    /\ UNCHANGED <<synth_guard, nBegin, nEnd, open, calls, otherVars>>

GEndWrite(t) ==                                            \* 147, the write
    /\ gpc[t] = "E147w"
    /\ synth_guard' = gtmp[t] - 1
    /\ nEnd' = nEnd + 1
    /\ open' = Max(open - 1, 0)
    /\ gtmp' = [gtmp EXCEPT ![t] = 0]
    /\ GSet(t, "idle")
    /\ UNCHANGED <<nBegin, calls, otherVars>>

GuardStep(t) == \/ GBeginCall(t)
                \/ GBeginRead(t)
                \/ GBeginWrite(t)
                \/ GEndCall(t)
                \/ GEndCheck(t)
                \/ GEndRead(t)
                \/ GEndWrite(t)

\* One thread calls the guard (in the application, the click thread), while
\* the mouse observer reads it.
NextGuardSeq == \/ GuardStep(1)
                \/ MouseNext

SpecGuardSeq == InitApp /\ [][NextGuardSeq]_vars

\* Two synthesis sites call the guard from two threads.
NextGuard == \/ \E t \in GuardThreads : GuardStep(t)
             \/ MouseNext

SpecGuard == InitApp /\ [][NextGuard]_vars

(***************************************************************************)
(* AutoClickThread, src/core/engine.py 290-382, with the UI thread's calls *)
(* of clear_click_state / stop and the user's finger on the left button.   *)
(*                                                                         *)
(* Times are in milliseconds.  Only the difference                         *)
(* perf_counter() - _last_synth_ts is ever used by the code: synth_age is  *)
(* that difference, followed up to MaxAge.  It grows while the thread      *)
(* sleeps and is 0 when line 336 stamps _last_synth_ts.  _last_synth_ts    *)
(* starts as 0.0, far in the past.                                         *)
(*                                                                         *)
(* btnDown is the operating system's state of the left button, which       *)
(* GetAsyncKeyState reports: the user's finger and the synthetic events    *)
(* of mouse_event both drive it.  Every button event reaches the mouse     *)
(* observer (_on_mouse) at once, so a synthetic event arrives inside the   *)
(* guard window that the 2 ms sleep of line 334 keeps open for it.         *)
(***************************************************************************)
Grace       == 30      \* the 0.03 s of line 366
IdleSleepMs == 10      \* the 0.01 s of line 382

\* random.randint(a, b): any integer of a..b.
RandInt(a, b) == a..b

\* The sleep of lines 376-377, in milliseconds.
Delays == {Max(1, delay_ms + r) : r \in RandInt(0 - rand_ms, rand_ms)}

\* The click thread sleeps for d milliseconds.
Sleep(d) == synth_age' = Min(synth_age + d, MaxAge)

\* The mouse observer is handed an event of the left button.
ObserveLeft(pressed) ==                                    \* app.py 907-913
    left_hold' = IF is_synth THEN left_hold ELSE pressed

\* What the click thread and its callers leave alone.
engineSide  == <<fire_enabled, press_key_enabled, right_hold, engVars, osVars,
                 loopVars, ctlVars, pc, ret, gpc, gtmp, nBegin, nEnd, open,
                 calls, faults, tickVars, sideVars>>

\* The exception is not caught anywhere in run(): the thread ends.
KRaise == kpc' = "dead"

KWhile ==                                                  \* 357
    /\ kpc = "K357"
    /\ kpc' = IF click_running THEN "K358" ELSE "done"
    /\ UNCHANGED <<auto_click_enabled, left_hold, synth_guard, clickAttrs,
                   clickLocals, clickGhost, uiVars, finger, btnDown,
                   engineSide>>

KGetState ==                                               \* 358-360
    /\ kpc = "K358"
    /\ auto_enabled' = auto_click_enabled
    /\ user_hold' = left_hold
    /\ kpc' = "K361"
    /\ UNCHANGED <<auto_click_enabled, left_hold, synth_guard, clickAttrs,
                   physical_hold, now_age, clickGhost, uiVars, finger,
                   btnDown, engineSide>>

\* The state accessor raises.
KGetStateFails ==                                          \* 358
    /\ kpc = "K358"
    /\ KRaise
    /\ UNCHANGED <<auto_click_enabled, left_hold, synth_guard, clickAttrs,
                   clickLocals, clickGhost, uiVars, finger, btnDown,
                   engineSide>>

KQuery ==                                                  \* 361-362
    /\ kpc = "K361"
    /\ physical_hold' = btnDown
    /\ now_age' = synth_age
    /\ kpc' = "K364"
    /\ UNCHANGED <<auto_click_enabled, left_hold, synth_guard, clickAttrs,
                   auto_enabled, user_hold, clickGhost, uiVars, finger,
                   btnDown, engineSide>>

\* A faulty variant: the grace period of line 366 is missing.
KReconcile_NoGrace ==
    /\ kpc = "K364"
    /\ hold_shadow' = IF user_hold THEN TRUE
                      ELSE IF ~physical_hold /\ ~synthing THEN FALSE
                      ELSE hold_shadow
    /\ kpc' = "K369"
    /\ UNCHANGED <<auto_click_enabled, left_hold, synth_guard, click_running,
                   clicking, synthing, synth_age, clickLocals, clickGhost,
                   uiVars, finger, btnDown, engineSide>>

KReconcile ==                                              \* 364-367
    /\ kpc = "K364"
    /\ hold_shadow' = IF user_hold THEN TRUE
                      ELSE IF ~physical_hold /\ ~synthing /\ now_age > Grace
                              THEN FALSE
                      ELSE hold_shadow
    /\ kpc' = "K369"
    /\ UNCHANGED <<auto_click_enabled, left_hold, synth_guard, click_running,
                   clicking, synthing, synth_age, clickLocals, clickGhost,
                   uiVars, finger, btnDown, engineSide>>

KBranch ==                                                 \* 369-371
    /\ kpc = "K369"
    /\ LET eff_hold == physical_hold \/ hold_shadow IN
       kpc' = IF auto_enabled /\ eff_hold THEN "K372" ELSE "K379"
    /\ UNCHANGED <<auto_click_enabled, left_hold, synth_guard, clickAttrs,
                   clickLocals, clickGhost, uiVars, finger, btnDown,
                   engineSide>>

\* g0, k_inc and k_dec follow the guard through the call of click_once that
\* starts here: the depth on entry, the increments and the decrements made.
KClickOn ==                                                \* 372-375
    /\ kpc = "K372"
    /\ clicking' = TRUE
    /\ g0' = synth_guard
    /\ k_inc' = 0
    /\ k_dec' = 0
    /\ kpc' = "K328"
    /\ UNCHANGED <<auto_click_enabled, left_hold, synth_guard, click_running,
                   synthing, hold_shadow, synth_age, clickLocals, k_exc,
                   clicks, uiVars, finger, btnDown, engineSide>>

KBegin ==                                          \* 328, 304-307, app.py 143
    /\ kpc = "K328"
    /\ synthing' = TRUE
    /\ synth_guard' = synth_guard + 1
    /\ k_inc' = k_inc + 1
    /\ kpc' = "K330"
    /\ UNCHANGED <<auto_click_enabled, left_hold, click_running, clicking,
                   hold_shadow, synth_age, clickLocals, k_exc, g0, k_dec,
                   clicks, uiVars, finger, btnDown, engineSide>>

\* begin_synth raises before it has incremented the depth.
KBeginFails ==                                             \* 328, 304-310
    /\ kpc = "K328"
    /\ synthing' = FALSE
    /\ k_exc' = TRUE
    /\ kpc' = "K334"
    /\ UNCHANGED <<auto_click_enabled, left_hold, synth_guard, click_running,
                   clicking, hold_shadow, synth_age, clickLocals, g0, k_inc,
                   k_dec, clicks, uiVars, finger, btnDown, engineSide>>

KMouseDown ==                                              \* 330
    /\ kpc = "K330"
    /\ btnDown' = TRUE
    /\ ObserveLeft(TRUE)
    /\ clicks' = Min(clicks + 1, MaxClicks)
    /\ kpc' = "K331"
    /\ UNCHANGED <<auto_click_enabled, synth_guard, clickAttrs, clickLocals,
                   k_exc, g0, k_inc, k_dec, uiVars, finger, engineSide>>

KMouseUp ==                                                \* 331
    /\ kpc = "K331"
    /\ btnDown' = FALSE
    /\ ObserveLeft(FALSE)
    /\ kpc' = "K334"
    /\ UNCHANGED <<auto_click_enabled, synth_guard, clickAttrs, clickLocals,
                   clickGhost, uiVars, finger, engineSide>>

\* One of the two mouse_event calls raises.
KMouseFails ==                                             \* 330-332
    /\ kpc \in {"K330", "K331"}
    /\ k_exc' = TRUE
    /\ kpc' = "K334"
    /\ UNCHANGED <<auto_click_enabled, left_hold, synth_guard, clickAttrs,
                   clickLocals, g0, k_inc, k_dec, clicks, uiVars, finger,
                   btnDown, engineSide>>

\* A faulty variant: end_synth decrements without the test of app.py 146.
KEnd_NoCheck ==
    /\ kpc = "K334"
    /\ synth_guard' = synth_guard - 1
    /\ k_dec' = k_dec + 1
    /\ synthing' = FALSE
    /\ kpc' = "K336"
    /\ UNCHANGED <<auto_click_enabled, left_hold, click_running, clicking,
                   hold_shadow, synth_age, clickLocals, k_exc, g0, k_inc,
                   clicks, uiVars, finger, btnDown, engineSide>>

KEnd ==                                    \* 334-335, 312-316, app.py 146-147
    /\ kpc = "K334"
    /\ IF synth_guard > 0
          THEN /\ synth_guard' = synth_guard - 1
               /\ k_dec' = k_dec + 1
          ELSE UNCHANGED <<synth_guard, k_dec>>
    /\ synthing' = FALSE
    /\ kpc' = "K336"
    /\ UNCHANGED <<auto_click_enabled, left_hold, click_running, clicking,
                   hold_shadow, synth_age, clickLocals, k_exc, g0, k_inc,
                   clicks, uiVars, finger, btnDown, engineSide>>

\* Line 336 ends the finally block: an exception raised in the try block
\* goes on from here, out of click_once and out of run().
KStamp ==                                                  \* 336
    /\ kpc = "K336"
    /\ synth_age' = 0
    /\ IF k_exc THEN KRaise ELSE kpc' = "K376"
    /\ UNCHANGED <<auto_click_enabled, left_hold, synth_guard, click_running,
                   clicking, synthing, hold_shadow, clickLocals, clickGhost,
                   uiVars, finger, btnDown, engineSide>>

\* The locals are dead once the iteration sleeps.
KDropLocals == /\ auto_enabled' = FALSE
               /\ user_hold' = FALSE
               /\ physical_hold' = FALSE
               /\ now_age' = 0

KClickSleep ==                                             \* 376-377
    /\ kpc = "K376"
    /\ \E delay \in Delays : Sleep(delay)
    /\ KDropLocals
    /\ kpc' = "K357"
    /\ UNCHANGED <<auto_click_enabled, left_hold, synth_guard, click_running,
                   clicking, synthing, hold_shadow, clickGhost, uiVars,
                   finger, btnDown, engineSide>>

KClickOff ==                                               \* 378-382
    /\ kpc = "K379"
    /\ clicking' = FALSE
    /\ Sleep(IdleSleepMs)
    /\ KDropLocals
    /\ kpc' = "K357"
    /\ UNCHANGED <<auto_click_enabled, left_hold, synth_guard, click_running,
                   synthing, hold_shadow, clickGhost, uiVars, finger, btnDown,
                   engineSide>>

\* The steps of run() when no call fails.
ClickRun == \/ KWhile
            \/ KGetState
            \/ KQuery
            \/ KReconcile
            \/ KBranch
            \/ KClickOn
            \/ KBegin
            \/ KMouseDown
            \/ KMouseUp
            \/ KEnd
            \/ KStamp
            \/ KClickSleep
            \/ KClickOff

ClickFails == \/ KGetStateFails
              \/ KBeginFails
              \/ KMouseFails

(***************************************************************************)
(* The UI thread: set_auto_click_enabled (app.py 796-810) and              *)
(* AutoClickThread.stop (line 338, called by shutdown, app.py 932-933),    *)
(* both of which run clear_click_state (lines 342-347).                    *)
(***************************************************************************)
UiSetAutoClick ==                                          \* app.py 796-807
    /\ upc = "idle"
    /\ \E value \in BOOLEAN :
          IF auto_click_enabled = value
             THEN UNCHANGED <<auto_click_enabled, upc, uret>>
             ELSE /\ auto_click_enabled' = value
                  /\ IF value THEN UNCHANGED <<upc, uret>>
                              ELSE /\ upc' = "C344"
                                   /\ uret' = "idle"
    /\ UNCHANGED <<left_hold, synth_guard, clickAttrs, clickLocals,
                   clickGhost, kpc, finger, btnDown, engineSide>>

UiClickStop ==                                             \* 338-340
    /\ upc = "idle"
    /\ click_running' = FALSE
    /\ upc' = "C344"
    /\ uret' = "stopped"
    /\ UNCHANGED <<auto_click_enabled, left_hold, synth_guard, clicking,
                   synthing, hold_shadow, synth_age, clickLocals, clickGhost,
                   kpc, finger, btnDown, engineSide>>

UiClearClicking ==                                         \* 344-346
    /\ upc = "C344"
    /\ clicking' = FALSE
    /\ upc' = "C347"
    /\ UNCHANGED <<auto_click_enabled, left_hold, synth_guard, click_running,
                   synthing, hold_shadow, synth_age, clickLocals, clickGhost,
                   kpc, uret, finger, btnDown, engineSide>>

UiClearShadow ==                                           \* 347
    /\ upc = "C347"
    /\ hold_shadow' = FALSE
    /\ upc' = uret
    /\ uret' = "idle"
    /\ UNCHANGED <<auto_click_enabled, left_hold, synth_guard, click_running,
                   clicking, synthing, synth_age, clickLocals, clickGhost,
                   kpc, finger, btnDown, engineSide>>

UiClickNext == \/ UiSetAutoClick
               \/ UiClickStop
               \/ UiClearClicking
               \/ UiClearShadow

(***************************************************************************)
(* The user's finger on the left button.                                   *)
(***************************************************************************)
UserPress ==
    /\ ~finger
    /\ finger' = TRUE
    /\ btnDown' = TRUE
    /\ ObserveLeft(TRUE)
    /\ UNCHANGED <<auto_click_enabled, synth_guard, clickAttrs, clickLocals,
                   clickGhost, kpc, uiVars, engineSide>>

UserRelease ==
    /\ finger
    /\ finger' = FALSE
    /\ btnDown' = FALSE
    /\ ObserveLeft(FALSE)
    /\ UNCHANGED <<auto_click_enabled, synth_guard, clickAttrs, clickLocals,
                   clickGhost, kpc, uiVars, engineSide>>

UserNext == \/ UserPress
            \/ UserRelease

\* The user's finger on the right button; the observer is handed the
\* event at once.
UserRight(pressed) ==                                      \* app.py 907-913
    /\ finger_r # pressed
    /\ finger_r' = pressed
    /\ right_hold' = IF is_synth THEN right_hold ELSE pressed
    /\ UNCHANGED <<fire_enabled, press_key_enabled, left_hold, engVars,
                   osVars, loopVars, ctlVars, pc, ret, synthVars, clickVars,
                   faults, tickVars, delayVars, backendVars, lifeVars,
                   plugVars>>

UserRightNext == \E pressed \in BOOLEAN : UserRight(pressed)

\* The application as constructed (app.py 605-653), seen from the click
\* thread: the engine's side is left as it was constructed.
InitClickApp ==
    /\ fire_enabled = TRUE
    /\ press_key_enabled = TRUE
    /\ right_hold = FALSE
    /\ left_hold = FALSE
    /\ InitGuard
    /\ InitEngine("p")
    /\ running = TRUE
    /\ pc = [t \in Threads |-> IF t = "L" THEN "L199" ELSE "idle"]
    /\ \E auto \in BOOLEAN : InitClick(auto)
    /\ InitFaults
    /\ InitTick
    /\ InitSide

NextClick == \/ ClickRun
             \/ ClickFails
             \/ UiClickNext
             \/ UserNext

SpecClick == InitClickApp /\ [][NextClick]_vars

\* The click thread with the user alone: auto-click is on, no call fails and
\* the UI thread does nothing.  The thread is scheduled again and again.
InitClickLive ==
    /\ fire_enabled = TRUE
    /\ press_key_enabled = TRUE
    /\ right_hold = FALSE
    /\ left_hold = FALSE
    /\ InitGuard
    /\ InitEngine("p")
    /\ running = TRUE
    /\ pc = [t \in Threads |-> IF t = "L" THEN "L199" ELSE "idle"]
    /\ InitClick(TRUE)
    /\ InitFaults
    /\ InitTick
    /\ InitSide

NextClickLive == \/ ClickRun
                 \/ UserNext

SpecClickLive == /\ InitClickLive
                 /\ [][NextClickLive]_vars
                 /\ WF_vars(ClickRun)

\* The click thread with the user's hand on both buttons.
NextClickRight == \/ ClickRun
                  \/ UserNext
                  \/ UserRightNext

SpecClickRight == /\ InitClickLive
                  /\ [][NextClickRight]_vars
                  /\ WF_vars(ClickRun)

(***************************************************************************)
(* The engine loop with a backend whose calls may raise.  Each failure     *)
(* takes the path of the except clause that encloses the call; up to       *)
(* MaxFaults calls fail.                                                   *)
(***************************************************************************)
\* The exception leaves _loop: the thread ends.
Abort(t) == /\ pc' = [pc EXCEPT ![t] = "aborted"]
            /\ UNCHANGED ret

\* A faulty variant: key_down is called outside any try block.
EnsureKeyDownFails_NoCatch(t) ==
    /\ pc[t] = "E162"
    /\ faults < MaxFaults
    /\ faults' = faults + 1
    /\ Abort(t)
    /\ UNCHANGED <<stateVars, engVars, osVars, loopVars, ctlVars, synthVars,
                   clickVars, tickVars, sideVars>>

EnsureKeyDownFails(t) ==                                   \* 162, 164-165
    /\ pc[t] = "E162"
    /\ faults < MaxFaults
    /\ faults' = faults + 1
    /\ Return(t)
    /\ UNCHANGED <<stateVars, engVars, osVars, loopVars, ctlVars, synthVars,
                   clickVars, tickVars, sideVars>>

\* A faulty variant: no finally clause, the flag is cleared only after a
\* key_up that returns.
ReleaseKeyUpFails_NoFinally(t) ==
    /\ pc[t] = "R172"
    /\ faults < MaxFaults
    /\ faults' = faults + 1
    /\ Return(t)
    /\ UNCHANGED <<stateVars, engVars, osVars, loopVars, ctlVars, synthVars,
                   clickVars, tickVars, sideVars>>

ReleaseKeyUpFails(t) ==                                    \* 172-174
    /\ pc[t] = "R172"
    /\ faults < MaxFaults
    /\ faults' = faults + 1
    /\ Goto(t, "R176")
    /\ UNCHANGED <<stateVars, engVars, osVars, loopVars, ctlVars, synthVars,
                   clickVars, tickVars, sideVars>>

\* The tick of lines 240-271 when move_mouse raises (lines 258-259).
LoopTickMoveFails ==                                       \* 240-271
    /\ pc["L"] = "L240"
    /\ faults < MaxFaults
    /\ faults' = faults + 1
    /\ count' = Min(count + 1, MaxCount)
    /\ Goto("L", "L274")
    /\ UNCHANGED <<stateVars, engVars, osVars, should_fire, s_press, shooting,
                   start_time, ctlVars, synthVars, clickVars, tickVars, sideVars>>

NextFault == \/ LoopNext
             \/ EnsureKeyDownFails("L")
             \/ ReleaseKeyUpFails("L")
             \/ LoopTickMoveFails
             \/ MouseNext

SpecFault == InitApp /\ [][NextFault]_vars

\* A faulty variant: the accessors are called outside any try block.
LoopSampleFails_NoCatch ==
    /\ pc["L"] = "L205"
    /\ faults < MaxFaults
    /\ faults' = faults + 1
    /\ Abort("L")
    /\ UNCHANGED <<stateVars, engVars, osVars, loopVars, ctlVars, synthVars,
                   clickVars, tickVars, sideVars>>

\* get_state, get_weapon or get_calc raises: st is {} and every flag takes
\* its default, so fire_enabled is True, the two holds are False and
\* press_key_enabled is True.
LoopSampleFails ==                                         \* 204-220
    /\ pc["L"] = "L205"
    /\ faults < MaxFaults
    /\ faults' = faults + 1
    /\ should_fire' = FALSE
    /\ s_press' = TRUE
    /\ Goto("L", "L221")
    /\ UNCHANGED <<stateVars, engVars, osVars, shooting, count, start_time,
                   ctlVars, synthVars, clickVars, tickVars, sideVars>>

NextAccessorFault == \/ NextFault
                     \/ LoopSampleFails

SpecAccessorFault == InitApp /\ [][NextAccessorFault]_vars

\* The loop alone, scheduled fairly: the thread is a daemon thread of its
\* own that nothing blocks, and every wait in it is a bounded sleep.
SpecLive == InitApp /\ [][NextSolo]_vars /\ WF_vars(LoopNext)

(***************************************************************************)
(* One shooting tick in detail: lines 240-271 of RecoilEngine._loop, in a  *)
(* session that goes on (should_fire stays true), for a profile cfg and a  *)
(* custom function calc that the accessors return.                         *)
(*                                                                         *)
(* Pulls and accelerations are counted in tenths, times in milliseconds.   *)
(* A float is a fraction [n, d] with d > 0; d = 0 stands for NaN.          *)
(***************************************************************************)
Frac(n, d) == [n |-> n, d |-> d]

\* A profile value v, given in tenths.
Tenths(v) == Frac(v, 10)

NaN == Frac(0, 0)

\* int(x) of a float: towards zero.
Trunc(x) == IF x.n >= 0 THEN x.n \div x.d ELSE 0 - ((0 - x.n) \div x.d)

\* defaultPull + count / acceleration, for acceleration # 0.
Ramp(c, k) ==                                              \* 248
    IF c.acceleration > 0
       THEN Frac(c.defaultPull * c.acceleration + 100 * k,
                 10 * c.acceleration)
       ELSE Frac(0 - (c.defaultPull * c.acceleration + 100 * k),
                 0 - 10 * c.acceleration)

\* What calc is: absent, a function that returns a number, one that raises,
\* one whose result float() rejects, one that returns NaN.
CalcKinds == {"none", "value", "raises", "bad", "nan"}

\* Results of a custom function, in tenths.
CalcValues == {0 - 15, 0, 27}

\* Readings of perf_counter() - start_time, in milliseconds.
ElapsedSet == {0, 100, 499, 500, 600}

\* The steps of the tick leave everything else alone.
tickFrame == <<stateVars, engVars, osVars, should_fire, s_press, shooting,
               start_time, ctlVars, pc, ret, synthVars, clickVars, faults,
               current_weapon, sideVars>>

TickCount ==                                               \* 240-241
    /\ tpc = "T240"
    /\ count < MaxTicks
    /\ count' = count + 1
    /\ elapsed' \in {e \in ElapsedSet : e >= elapsed}
    /\ moved' = FALSE
    /\ slept' = 0
    /\ tick_err' = {}
    /\ tpc' = "T242"
    /\ UNCHANGED <<cfg, calc, pull, dy, tickFrame>>

\* A faulty variant: no except clause encloses the calculation.
TickPull_NoCatch ==
    /\ tpc = "T242"
    /\ IF calc \in {"raises", "bad"}
          THEN /\ tpc' = "aborted"
               /\ UNCHANGED <<pull, tick_err>>
          ELSE /\ tpc' = "T256"
               /\ pull' = IF calc = "nan" THEN NaN
                          ELSE IF calc = "value" THEN Tenths(27)
                          ELSE IF elapsed < cfg.initialDuration
                                  /\ cfg.acceleration # 0
                                  THEN Ramp(cfg, count)
                          ELSE Tenths(cfg.steadyPull)
               /\ UNCHANGED tick_err
    /\ UNCHANGED <<count, cfg, calc, elapsed, moved, dy, slept, tickFrame>>

\* A faulty variant: the ramp lasts until elapsed exceeds initialDuration.
TickPull_LateSteady ==
    /\ tpc = "T242"
    /\ pull' = IF calc = "none" /\ elapsed <= cfg.initialDuration
                  /\ cfg.acceleration # 0
                  THEN Ramp(cfg, count)
               ELSE Tenths(cfg.steadyPull)
    /\ tpc' = "T256"
    /\ UNCHANGED <<count, cfg, calc, elapsed, moved, dy, slept, tick_err,
                   tickFrame>>

TickPull ==                                                \* 242-253
    /\ tpc = "T242"
    /\ CASE calc = "value" ->                              \* 244
              /\ \E v \in CalcValues : pull' = Tenths(v)
              /\ UNCHANGED tick_err
         [] calc = "nan" ->                                \* 244
              /\ pull' = NaN
              /\ UNCHANGED tick_err
         [] calc \in {"raises", "bad"} ->                  \* 244, 251-253
              /\ pull' = Tenths(cfg.steadyPull)
              /\ tick_err' = tick_err \cup {"pull"}
         [] OTHER ->
              IF elapsed < cfg.initialDuration             \* 247
                 THEN IF cfg.acceleration = 0              \* 248, 251-253
                         THEN /\ pull' = Tenths(cfg.steadyPull)
                              /\ tick_err' = tick_err \cup {"pull"}
                         ELSE /\ pull' = Ramp(cfg, count)  \* 248
                              /\ UNCHANGED tick_err
                 ELSE /\ pull' = Tenths(cfg.steadyPull)    \* 250
                      /\ UNCHANGED tick_err
    /\ tpc' = "T256"
    /\ UNCHANGED <<count, cfg, calc, elapsed, moved, dy, slept, tickFrame>>

\* int(NaN) raises inside the try block before move_mouse is called.
TickMove ==                                                \* 256-257
    /\ tpc = "T256"
    /\ IF pull = NaN
          THEN /\ tick_err' = tick_err \cup {"move"}       \* 258-259
               /\ UNCHANGED <<moved, dy>>
          ELSE /\ moved' = TRUE
               /\ dy' = Trunc(pull)
               /\ UNCHANGED tick_err
    /\ tpc' = "T262"
    /\ UNCHANGED <<count, cfg, calc, elapsed, pull, slept, tickFrame>>

\* move_mouse is called and raises.
TickMoveFails ==                                           \* 256-259
    /\ tpc = "T256"
    /\ pull # NaN
    /\ moved' = TRUE
    /\ dy' = Trunc(pull)
    /\ tick_err' = tick_err \cup {"move"}
    /\ tpc' = "T262"
    /\ UNCHANGED <<count, cfg, calc, elapsed, pull, slept, tickFrame>>

\* The sleep lasts max(0.001, sleep_ms / 1000.0) seconds.
TickSleep ==                                               \* 262-271
    /\ tpc = "T262"
    /\ slept' = Max(1, cfg.sleepTime)
    /\ tpc' = "T204"
    /\ UNCHANGED <<count, cfg, calc, elapsed, pull, moved, dy, tick_err,
                   tickFrame>>

\* The next iteration samples the profile again (the selection is not
\* changed while this session lasts).
TickSample ==                                              \* 204-212
    /\ tpc = "T204"
    /\ cfg' = GetWeapon(current_weapon)
    /\ tpc' = "T240"
    /\ UNCHANGED <<count, calc, elapsed, pull, moved, dy, slept, tick_err,
                   tickFrame>>

NextTick == \/ TickSample
            \/ TickCount
            \/ TickPull
            \/ TickMove
            \/ TickMoveFails
            \/ TickSleep

\* A session has just begun (lines 225-232) with some profile and some calc.
InitTickApp ==
    /\ fire_enabled = TRUE
    /\ press_key_enabled = TRUE
    /\ right_hold = TRUE
    /\ left_hold = TRUE
    /\ InitGuard
    /\ running = TRUE
    /\ trigger_key = "p"
    /\ trigger_held = TRUE
    /\ keysDown = {"p"}
    /\ nDown = 1
    /\ nUp = 0
    /\ should_fire = TRUE
    /\ s_press = TRUE
    /\ shooting = TRUE
    /\ count = 0
    /\ start_time = 1
    /\ c_key = "p"
    /\ c_old = "p"
    /\ c_was_held = FALSE
    /\ ret = [t \in Threads |-> "none"]
    /\ pc = [t \in Threads |-> IF t = "L" THEN "L240" ELSE "idle"]
    /\ InitClick(FALSE)
    /\ InitFaults
    /\ InitSide
    /\ \E w \in Weapons, f \in CalcKinds : InitTickWith(w, f)

SpecTick == InitTickApp /\ [][NextTick]_vars

(***************************************************************************)
(* The click parameters.  AutoClickThread._delay_ms and _rand_ms are set   *)
(* by the constructor from what _load_settings read (app.py 684-685, no    *)
(* clamping there) and rewritten by update_click_params on the UI thread;  *)
(* line 376 of the click thread reads _delay_ms once and _rand_ms twice.   *)
(***************************************************************************)
\* What the two entry fields, or the settings file, can hold.
ParamInputs == {0 - 5, 0, 1, 20}

\* The rest of the application while the click parameters are looked at.
InitQuiet ==
    /\ fire_enabled = TRUE
    /\ press_key_enabled = TRUE
    /\ right_hold = FALSE
    /\ left_hold = FALSE
    /\ InitGuard
    /\ InitEngine("p")
    /\ running = TRUE
    /\ pc = [t \in Threads |-> IF t = "L" THEN "L199" ELSE "idle"]
    /\ InitClick(TRUE)
    /\ InitFaults
    /\ InitTick
    /\ InitLife
    /\ finger_r = FALSE

quietVars == <<stateVars, engVars, osVars, loopVars, ctlVars, pc, ret,
               synthVars, clickVars, faults, tickVars, lifeVars, plugVars,
               finger_r>>

UpdWriteDelay(base, rand) ==                               \* 829-833
    /\ upd_pc = "idle"
    /\ thr_delay_ms' = Max(1, base)
    /\ u_rand' = Max(0, rand)
    /\ upd_pc' = "U834"
    /\ UNCHANGED <<thr_rand_ms, d_base, d_lo, d_hi, d_delay, dpc,
                   backendVars, quietVars>>

UpdWriteRand ==                                            \* 834
    /\ upd_pc = "U834"
    /\ thr_rand_ms' = u_rand
    /\ upd_pc' = "idle"
    /\ UNCHANGED <<thr_delay_ms, u_rand, d_base, d_lo, d_hi, d_delay, dpc,
                   backendVars, quietVars>>

DelayReadBase ==                                           \* 376
    /\ dpc = "D376"
    /\ d_base' = thr_delay_ms
    /\ dpc' = "D376a"
    /\ UNCHANGED <<thr_delay_ms, thr_rand_ms, u_rand, upd_pc, d_lo, d_hi,
                   d_delay, backendVars, quietVars>>

DelayReadLow ==                                            \* 376
    /\ dpc = "D376a"
    /\ d_lo' = 0 - thr_rand_ms
    /\ dpc' = "D376b"
    /\ UNCHANGED <<thr_delay_ms, thr_rand_ms, u_rand, upd_pc, d_base, d_hi,
                   d_delay, backendVars, quietVars>>

DelayReadHigh ==                                           \* 376
    /\ dpc = "D376b"
    /\ d_hi' = thr_rand_ms
    /\ dpc' = "D376c"
    /\ UNCHANGED <<thr_delay_ms, thr_rand_ms, u_rand, upd_pc, d_base, d_lo,
                   d_delay, backendVars, quietVars>>

\* A faulty variant: the sum is not clamped.
DelayCompute_NoClamp ==
    /\ dpc = "D376c"
    /\ \E r \in d_lo .. d_hi : d_delay' = d_base + r
    /\ dpc' = "D377"
    /\ UNCHANGED <<thr_delay_ms, thr_rand_ms, u_rand, upd_pc, d_base, d_lo,
                   d_hi, backendVars, quietVars>>

\* random.randint(a, b) raises ValueError when a > b; nothing in run()
\* catches it.
DelayCompute ==                                            \* 376
    /\ dpc = "D376c"
    /\ IF d_lo > d_hi
          THEN /\ dpc' = "dead"
               /\ UNCHANGED d_delay
          ELSE /\ \E r \in d_lo .. d_hi : d_delay' = Max(1, d_base + r)
               /\ dpc' = "D377"
    /\ UNCHANGED <<thr_delay_ms, thr_rand_ms, u_rand, upd_pc, d_base, d_lo,
                   d_hi, backendVars, quietVars>>

\* time.sleep(delay / 1000.0), then the next click.
DelaySleep ==                                              \* 377
    /\ dpc = "D377"
    /\ dpc' = "D376"
    /\ UNCHANGED <<thr_delay_ms, thr_rand_ms, u_rand, upd_pc, d_base, d_lo,
                   d_hi, d_delay, backendVars, quietVars>>

NextDelay == \/ \E base \in ParamInputs, rand \in ParamInputs :
                   UpdWriteDelay(base, rand)
             \/ UpdWriteRand
             \/ DelayReadBase
             \/ DelayReadLow
             \/ DelayReadHigh
             \/ DelayCompute
             \/ DelaySleep

InitDelayApp ==
    /\ InitQuiet
    /\ InitBackend
    /\ \E d \in ParamInputs, r \in ParamInputs : InitDelayWith(d, r)

SpecDelay == InitDelayApp /\ [][NextDelay]_vars

(***************************************************************************)
(* The choice of the input backend: the import of core.input_backend at    *)
(* the top of engine.py (17-22) and RecoilEngine._choose_backend (58-115). *)
(* core/input_backend.py reads ctypes.windll.user32 at its line 12 and     *)
(* imports pynput at its lines 123-124, both at module level, so the       *)
(* import succeeds only where both exist.  WinAPIBackend has no            *)
(* constructor of its own; PynputBackend and _SimplePynputBackend construct*)
(* pynput's two controllers.                                               *)
(***************************************************************************)
\* Values of the backend argument; anything but the first two is "auto".
BackendArgs == {"winapi", "pynput", "auto", ""}

BackendImport ==                                           \* 17-22
    /\ bpc = "B17"
    /\ has_backends' = (win_ok /\ pynput_ok)
    /\ bpc' = "B60"
    /\ UNCHANGED <<b_arg, win_ok, pynput_ok, ctor_ok, backend, delayVars,
                   quietVars>>

BackendChoose ==                                           \* 60-73
    /\ bpc = "B60"
    /\ IF has_backends /\ (b_arg # "pynput" \/ ctor_ok)
          THEN /\ backend' = IF b_arg = "pynput" THEN "Pynput" ELSE "WinAPI"
               /\ bpc' = "done"
          ELSE /\ bpc' = "B75"
               /\ UNCHANGED backend
    /\ UNCHANGED <<b_arg, win_ok, pynput_ok, ctor_ok, has_backends, delayVars,
                   quietVars>>

BackendFallback ==                                         \* 75-115
    /\ bpc = "B75"
    /\ backend' = IF pynput_ok /\ ctor_ok THEN "SimplePynput" ELSE "Dummy"
    /\ bpc' = "done"
    /\ UNCHANGED <<b_arg, win_ok, pynput_ok, ctor_ok, has_backends, delayVars,
                   quietVars>>

NextBackend == \/ BackendImport
               \/ BackendChoose
               \/ BackendFallback

InitBackendApp ==
    /\ InitQuiet
    /\ InitDelay
    /\ \E a \in BackendArgs, w \in BOOLEAN, p \in BOOLEAN, c \in BOOLEAN :
          InitBackendWith(a, w, p, c)

SpecBackend == InitBackendApp /\ [][NextBackend]_vars

(***************************************************************************)
(* The life of the loop threads: RecoilEngine.start and stop (120-138) and *)
(* the test of line 203.  Each start() that finds _running False creates a *)
(* thread; stop() waits for the thread in _thread for one second at most.  *)
(* An iteration lasts as long as its accessors, its backend calls and its  *)
(* sleep of cfg.sleepTime milliseconds last, which no line bounds.  The    *)
(* iterations are taken as a whole here: no key is held, so the            *)
(* release_trigger() of lines 131 and 287 returns at its line 170.         *)
(***************************************************************************)
LoopThreads == 1..MaxThreads

lifeFrame == <<stateVars, trigger_key, trigger_held, osVars, loopVars,
               ctlVars, ret, synthVars, clickVars, faults, tickVars,
               delayVars, backendVars, plugVars, finger_r>>

LifeStart ==                                               \* 120-127
    /\ pc["C"] = "idle"
    /\ IF running
          THEN UNCHANGED <<running, lpc, l_thread>>
          ELSE /\ l_thread < MaxThreads
               /\ running' = TRUE
               /\ l_thread' = l_thread + 1
               /\ lpc' = [lpc EXCEPT ![l_thread + 1] = "L203"]
    /\ UNCHANGED <<pc, lifeFrame>>

LifeStop ==                                                \* 129-132
    /\ pc["C"] = "idle"
    /\ running' = FALSE
    /\ pc' = [pc EXCEPT !["C"] = "T133"]
    /\ UNCHANGED <<lpc, l_thread, lifeFrame>>

\* join returns because the thread has ended.
LifeJoin ==                                                \* 133-138
    /\ pc["C"] = "T133"
    /\ IF l_thread = 0 THEN TRUE ELSE lpc[l_thread] = "done"
    /\ pc' = [pc EXCEPT !["C"] = "idle"]
    /\ UNCHANGED <<running, lpc, l_thread, lifeFrame>>

\* join returns after its timeout while the thread is inside an iteration.
LifeJoinTimeout ==                                         \* 135, 138
    /\ pc["C"] = "T133"
    /\ l_thread # 0
    /\ lpc[l_thread] = "L204"
    /\ pc' = [pc EXCEPT !["C"] = "idle"]
    /\ UNCHANGED <<running, lpc, l_thread, lifeFrame>>

LifeWhile(t) ==                                            \* 203, 287
    /\ lpc[t] = "L203"
    /\ lpc' = [lpc EXCEPT ![t] = IF running THEN "L204" ELSE "done"]
    /\ UNCHANGED <<running, l_thread, pc, lifeFrame>>

LifeIterate(t) ==                                          \* 204-284
    /\ lpc[t] = "L204"
    /\ lpc' = [lpc EXCEPT ![t] = "L203"]
    /\ UNCHANGED <<running, l_thread, pc, lifeFrame>>

NextLife == \/ LifeStart
            \/ LifeStop
            \/ LifeJoin
            \/ LifeJoinTimeout
            \/ \E t \in LoopThreads : LifeWhile(t)
            \/ \E t \in LoopThreads : LifeIterate(t)

SpecLife == Init /\ [][NextLife]_vars

(***************************************************************************)
(* The profile list: PluginManager.load (app.py 70-121), switch_weapon     *)
(* (861-870) and refresh_plugins (878-890), all run by the UI thread, and  *)
(* the user's editing of the plugin file between two reloads.  plug_file   *)
(* is the file: whether it can be read, and the entries it holds (entries  *)
(* that fail to parse are skipped by lines 117-118 and are left out here). *)
(***************************************************************************)
\* The entries of a file: two profiles, and the first of them after an
\* edit of its steadyPull.
PlugRecords ==
    LET base == {p \in Profiles : p.name \in {"plain", "flat"}}
    IN  base \cup {[p EXCEPT !.steadyPull = 30] :
                      p \in {q \in base : q.name = "plain"}}

PlugFiles ==
    [readable : BOOLEAN,
     items : {<<>>} \cup {<<a>> : a \in PlugRecords}
                    \cup {<<a, b>> : a \in PlugRecords, b \in PlugRecords}]

plugFrame == <<stateVars, engVars, osVars, loopVars, ctlVars, pc, ret,
               synthVars, clickVars, faults, tpc, cfg, calc, elapsed, pull,
               moved, dy, slept, tick_err, delayVars, backendVars, lifeVars,
               finger_r>>

EditFile ==
    /\ plug_file' \in PlugFiles \ {plug_file}
    /\ UNCHANGED <<weapons, current_weapon, plugFrame>>

\* load() clears the list first (line 78); json.load raising leaves load()
\* and refresh_plugins() at once.
RefreshPlugins ==                                          \* 878-890, 70-121
    /\ IF ~plug_file.readable
          THEN /\ weapons' = <<>>
               /\ UNCHANGED current_weapon
          ELSE /\ weapons' = plug_file.items
               /\ current_weapon' =
                     IF weapons' = <<>> THEN {}
                     ELSE IF current_weapon = {}
                             \/ \A i \in DOMAIN weapons' :
                                   \A w \in current_weapon :
                                      weapons'[i].name # w.name
                             THEN {weapons'[1]}
                     ELSE current_weapon
    /\ UNCHANGED <<plug_file, plugFrame>>

SwitchWeapon(index) ==                                     \* 861-870
    /\ IF weapons = <<>>
          THEN UNCHANGED current_weapon
          ELSE current_weapon' =
                  {weapons[Max(0, Min(index, Len(weapons) - 1)) + 1]}
    /\ UNCHANGED <<plug_file, weapons, plugFrame>>

NextPlugins == \/ EditFile
               \/ RefreshPlugins
               \/ \E index \in (0 - 1) .. 2 : SwitchWeapon(index)

\* No plugin file has been found at startup.
InitPlugApp == /\ InitQuiet
               /\ InitDelay
               /\ InitBackend

SpecPlugins == InitPlugApp /\ [][NextPlugins]_vars

(***************************************************************************)
(*                              Properties                                 *)
(***************************************************************************)

\* No thread is inside _ensure_trigger_down or release_trigger.
Quiescent == \A t \in Threads : ~InHelper(t)

\* C1: once stop() has returned (the UI thread is at line 138, the loop has
\* been joined) _trigger_held is False and no key the engine pressed is still
\* down: every key-down has been followed by a key-up of the same key.
C1_NoKeyHeldAfterStop ==
    pc["C"] = "T138" => (~trigger_held /\ keysDown = {})

\* C2: in no reachable state are two different trigger keys down at the same
\* time; a rebind issues the key-up of the old key before the key-down of the
\* new one, so the old and the new key are never down together.
C2_NeverTwoKeysDown ==
    Cardinality(keysDown) <= 1

\* C3: when set_trigger_key(new) returns (line 156) having found the previous
\* key held, the old key is up, and if _trigger_held is True the key that is
\* down is the new key.  States in which the loop is in the middle of one of
\* the trigger helpers are left out: there the flag and the key differ by
\* design for a moment.
C3_RebindAtomic ==
    (pc["C"] = "K156" /\ c_was_held /\ ~InHelper("L"))
        => (c_old \notin keysDown /\ (trigger_held => c_key \in keysDown))

\* C4: whenever no thread is inside a trigger helper, _trigger_held being True
\* implies that the current _trigger_key is the key that is down (a key-down
\* for it was issued and no key-up for it since).
C4_HeldMeansCurrentKeyDown ==
    Quiescent => (trigger_held => trigger_key \in keysDown)

\* C5 (Scenario B): with fire_enabled, right_hold, left_hold and
\* press_key_enabled true the engine issues exactly one key-down, for the
\* trigger key, however many shooting ticks follow: while it is Shooting and
\* past the press of the entry, one key-down and no key-up have been issued
\* and the trigger key is down.  Once left_hold is false and the engine is
\* back in Idle, exactly one key-up has been issued and no key is down.
EntryPress == InHelper("L") /\ ret["L"] = "L235"

ExitRelease == InHelper("L") /\ ret["L"] = "L282"

C5_ScenarioB ==
    /\ nDown <= 1
    /\ nUp <= nDown
    /\ (shooting /\ ~EntryPress)
          => (nDown = 1 /\ nUp = 0 /\ keysDown = {trigger_key} /\ trigger_held)
    /\ (~shooting /\ nDown = 1 /\ ~ExitRelease)
          => (nUp = 1 /\ keysDown = {} /\ ~trigger_held)
    /\ (~shooting /\ nDown = 0) => keysDown = {}

\* Scenario B has run to its end: the engine was Shooting, left_hold went
\* false, and the engine is Idle again after one key-down and one key-up.
C5_Witness ==
    /\ ~left_hold
    /\ ~shooting
    /\ pc["L"] = "L203"
    /\ nDown = 1
    /\ nUp = 1

\* C6: _ensure_trigger_down called again with no release_trigger in between
\* issues no second key_down: the backend's key_down is only ever called with
\* the key up.  Symmetrically release_trigger with the key not held issues no
\* key_up: the backend's key_up is only ever called with the key down.
C6_IdempotentHelpers ==
    /\ pc["L"] = "E162" => (~trigger_held /\ trigger_key \notin keysDown)
    /\ pc["L"] = "R172" => (trigger_held /\ trigger_key \in keysDown)
    /\ ~InHelper("L") => (trigger_held <=> trigger_key \in keysDown)
    /\ keysDown \subseteq {trigger_key}

\* The loop has called _ensure_trigger_down at line 231 and again at line 237
\* of the same iteration (count is still 0), and one key_down was issued.
C6_Witness ==
    /\ pc["L"] = "L240"
    /\ shooting
    /\ s_press
    /\ count = 0
    /\ nDown = 1
    /\ nUp = 0

\* C7: on the Shooting -> Idle transition the loop resets shooting, count and
\* start_time and calls release_trigger whatever press_key_enabled was
\* sampled as, and when that call returns _trigger_held is False.
C7_ExitReleasesAndResets ==
    [][ /\ (pc["L"] = "L274" /\ pc'["L"] # "L274" /\ shooting /\ ~should_fire)
              => /\ pc'["L"] = "R169"
                 /\ ret'["L"] = "L282"
                 /\ ~shooting'
                 /\ count' = 0
                 /\ start_time' = 0
        /\ (ret["L"] = "L282" /\ pc'["L"] = "L282")
              => /\ ~trigger_held'
                 /\ ~shooting'
                 /\ count' = 0
                 /\ start_time' = 0
      ]_vars

\* The loop has left Shooting in an iteration that sampled press_key_enabled
\* as false, and is releasing a key it found held.
C7_Witness ==
    /\ pc["L"] = "R172"
    /\ ret["L"] = "L282"
    /\ ~s_press
    /\ ~shooting
    /\ count = 0
    /\ start_time = 0

\* C8: a loop iteration that sampled press_key_enabled as false finishes with
\* the trigger key not held.
C8_NotHeldWhenPressOff ==
    [][ (pc["L"] = "L282" /\ pc'["L"] = "L203" /\ ~s_press) => ~trigger_held' ]_vars

\* C9: for any sequence of begin_synth() / end_synth() calls made one after
\* the other the depth is never negative and equals the number of windows
\* that are open (so end_synth at depth 0 leaves it at 0), is_synth() is true
\* exactly when a window is open, and it is false once every begin has been
\* matched by an end.
C9_GuardBalance ==
    /\ synth_guard >= 0
    /\ synth_guard = open
    /\ is_synth <=> open > 0

\* Three calls were made: a begin, the end that matches it, and one more end
\* at depth 0.
C9_Witness ==
    /\ calls = 3
    /\ nBegin = 1
    /\ nEnd = 1
    /\ gpc[1] = "idle"
    /\ synth_guard = 0

\* C10: with begin_synth / end_synth called from two threads no update is
\* lost: the depth equals the number of completed begins minus the number of
\* completed decrementing ends.
C10_NoLostUpdate ==
    synth_guard = nBegin - nEnd

\* The click thread is inside click_once, between its entry and line 336.
InClickOnce == kpc \in {"K328", "K330", "K331", "K334", "K336"}

\* C11: click_once leaves the guard as it found it on every exit path
\* (normal return, a mouse_event call raising, begin_synth raising): a
\* call increments at most once, never decrements more often than it has
\* incremented, and once it is over the depth is the depth on entry, the
\* increments equal the decrements and _synthing is False.
C11_ClickOnceGuardBalanced ==
    /\ k_inc <= 1
    /\ k_dec <= k_inc
    /\ synth_guard >= 0
    /\ ~InClickOnce => (synth_guard = g0 /\ k_inc = k_dec /\ ~synthing)

\* After a click that went well, a call of click_once in which begin_synth
\* raised has come to its end: the exception has left run().
C11_Witness ==
    /\ kpc = "dead"
    /\ k_exc
    /\ k_inc = 0
    /\ clicks > 0

\* A synthetic click is in flight: begin_synth has returned and line 336 has
\* not stamped _last_synth_ts yet.
InFlight == kpc \in {"K330", "K331", "K334", "K336"}

\* In flight, or less than the grace period after the stamp.
ClickWindow == InFlight \/ synth_age < Grace

\* C12 as stated: during the window of a synthetic click (in flight, and the
\* grace period after it) _hold_shadow never goes from True to False.
C12_ShadowNeverDropsInWindow ==
    [][ (ClickWindow /\ hold_shadow) => hold_shadow' ]_vars

\* C12, amended: during the window of a synthetic click the only step that
\* takes _hold_shadow from True to False is line 347 of clear_click_state,
\* run by the UI thread; the reconciliation of run() never does, whatever
\* left_hold and the hardware query read.
C12_ShadowKeptByReconcile ==
    [][ (ClickWindow /\ hold_shadow /\ ~hold_shadow') => upc = "C347" ]_vars

\* The reconciliation is about to run inside the grace period of a click,
\* with the latch set and with both left_hold and the hardware query read
\* as not held.
C12_Witness ==
    /\ kpc = "K364"
    /\ hold_shadow
    /\ ~user_hold
    /\ ~physical_hold
    /\ clicks > 0
    /\ now_age < Grace

\* C13: the reconciliation of one tick sets the latch if user_hold is true;
\* otherwise it clears the latch exactly when the hardware reports not held,
\* no synthesis is active and at least 30 ms have passed since the last
\* synthetic click was stamped; otherwise it leaves the latch alone.  The
\* click branch is taken exactly when auto_enabled and (physical_hold or the
\* latch).
C13_ReconcilePolicy ==
    [][ /\ (kpc = "K364" /\ kpc' = "K369")
              => hold_shadow' =
                    IF user_hold THEN TRUE
                    ELSE IF ~physical_hold /\ ~synthing /\ now_age >= Grace
                            THEN FALSE
                    ELSE hold_shadow
        /\ (kpc = "K369" /\ kpc' # "K369")
              => (kpc' = "K372"
                     <=> (auto_enabled /\ (physical_hold \/ hold_shadow)))
      ]_vars

\* C14: once the user has let go of the left button, either the user presses
\* it again or the click thread comes to rest: not clicking, latch cleared.
C14_ReleaseStopsClicking ==
    ~finger ~> (finger \/ (~clicking /\ ~hold_shadow))

\* C15: while auto_click_enabled is false and the call of clear_click_state
\* that followed its being set to false has returned, the click thread
\* issues no synthetic button-down.
C15_NoClickAfterClear ==
    [][ (~auto_click_enabled /\ upc = "idle")
            => ~(kpc = "K330" /\ kpc' = "K331") ]_vars

\* C16: once stop() has returned and run() has ended, _clicking and
\* _hold_shadow are False.
C16_StoppedMeansCleared ==
    (upc = "stopped" /\ kpc \in {"done", "dead"})
        => (~clicking /\ ~hold_shadow)

\* C17: a key_down, key_up or move_mouse call that raises inside the engine
\* loop never ends the loop: the thread goes on at the statement after the
\* except clause (the helper returns with the flag unset after key_down, the
\* finally clause of release_trigger runs after key_up, the tick goes on to
\* its sleep after move_mouse), and so reaches the next iteration.
C17_BackendFailureNeverAborts ==
    [][ /\ pc'["L"] # "aborted"
        /\ faults' # faults
              => CASE pc["L"] = "E162" -> /\ pc'["L"] = ret["L"]
                                          /\ ~trigger_held'
                   [] pc["L"] = "R172" -> pc'["L"] = "R176"
                   [] pc["L"] = "L240" -> /\ pc'["L"] = "L274"
                                          /\ count' = Min(count + 1, MaxCount)
                   [] OTHER -> FALSE
      ]_vars

\* Calls have failed, and the loop is at the top of a later iteration.
C17_Witness ==
    /\ faults = MaxFaults
    /\ running
    /\ pc["L"] = "L205"
    /\ shooting

\* C18: while _running is true the click thread has not been ended by an
\* exception.
C18_ClickThreadSurvivesFailure ==
    click_running => kpc # "dead"

\* The custom function raises, or returns what float() rejects.
CalcFails == calc \in {"raises", "bad"}

\* C19: when the custom pull function fails, the tick is not abandoned: the
\* error is logged, pull is the profile's steadyPull, move_mouse is called
\* with int() of it, and the tick's sleep takes place.
C19_PullFailureFallsBack ==
    /\ tpc # "aborted"
    /\ (CalcFails /\ tpc \in {"T256", "T262"})
          => (pull = Tenths(cfg.steadyPull) /\ "pull" \in tick_err)
    /\ (CalcFails /\ tpc = "T262")
          => (moved /\ dy = Trunc(Tenths(cfg.steadyPull)))
    /\ (CalcFails /\ tpc = "T240" /\ count > 0)
          => /\ moved
             /\ dy = Trunc(Tenths(cfg.steadyPull))
             /\ slept = Max(1, cfg.sleepTime)

\* Two ticks of a session whose custom function raises have been completed.
C19_Witness ==
    /\ calc = "raises"
    /\ tpc = "T240"
    /\ count = 2
    /\ moved
    /\ slept > 0

\* C20: with no custom function, pull is defaultPull + count / acceleration
\* while elapsed < initialDuration and steadyPull from then on; for a
\* positive acceleration it does not decrease from one tick of the ramp to
\* the next; for the default profile it is 2.1 at 0.1 s and tick 20, and 1.6
\* at 0.6 s.
C20_PullCurve ==
    /\ [] /\ (calc = "none" /\ tpc = "T256" /\ cfg.acceleration # 0
                 /\ elapsed < cfg.initialDuration)
              => pull.n * 10 * cfg.acceleration
                    = (cfg.defaultPull * cfg.acceleration + 100 * count)
                         * pull.d
          /\ (calc = "none" /\ tpc = "T256"
                 /\ elapsed >= cfg.initialDuration)
              => pull.n * 10 = cfg.steadyPull * pull.d
          /\ (calc = "none" /\ tpc = "T256" /\ cfg = DefaultProfile
                 /\ elapsed = 100 /\ count = 20)
              => pull.n * 10 = 21 * pull.d
          /\ (calc = "none" /\ tpc = "T256" /\ cfg = DefaultProfile
                 /\ elapsed = 600)
              => pull.n * 10 = 16 * pull.d
    /\ [][ (tpc = "T242" /\ tpc' = "T256" /\ calc = "none" /\ count > 1
               /\ cfg.acceleration > 0 /\ elapsed < cfg.initialDuration)
            => pull'.n * pull.d >= pull.n * pull'.d ]_vars

\* The default profile at tick 20, 0.1 s into the session.
C20_Witness ==
    /\ cfg = DefaultProfile
    /\ calc = "none"
    /\ tpc = "T256"
    /\ elapsed = 100
    /\ count = 20
    /\ pull = [n |-> 42000, d |-> 20000]

\* C21: every shooting tick emits one relative move whose vertical part is
\* round(pull), the nearest integer (a steady pull of 1.6 is emitted as 2).
\* The loop emits int(pull), which drops the fraction: this is not what line
\* 257 does.
C21_MoveIsRoundedPull ==
    (tpc = "T262" /\ pull # NaN)
       => /\ moved
          /\ LET q == (pull.n - (pull.n % pull.d)) \div pull.d
                 r == 2 * (pull.n % pull.d)
             IN  dy = IF r < pull.d THEN q
                      ELSE IF r > pull.d THEN q + 1
                      ELSE IF q % 2 = 0 THEN q ELSE q + 1

\* C25: while no profile is selected the loop works with the default
\* profile, named "Default": defaultPull 2.0, initialDuration 0.5 s,
\* steadyPull 1.6, sleepTime 8 ms, acceleration 200.0.
C25_NoSelectionMeansDefault ==
    current_weapon = {}
       => /\ cfg = [name |-> "Default", defaultPull |-> 20,
                    initialDuration |-> 500, steadyPull |-> 16,
                    sleepTime |-> 8, acceleration |-> 2000]
          /\ (calc = "none" /\ tpc = "T262" /\ elapsed >= 500)
                => (pull = Tenths(16) /\ moved)
          /\ (tpc = "T204") => slept = 8

\* An iteration that found no profile selected has sampled the default one
\* and is in its second tick.
C25_Witness ==
    /\ current_weapon = {}
    /\ cfg.name = "Default"
    /\ calc = "none"
    /\ tpc = "T262"
    /\ count = 2
    /\ elapsed = 600
    /\ pull = Tenths(16)

\* C22: the sleep between two synthetic clicks is max(1, delay_ms + r)
\* milliseconds for some r in -rand_ms .. rand_ms, where delay_ms and rand_ms
\* are values that were configured while line 376 ran; it is never below
\* 1 ms, and with 20 and 20 it lies in 1 .. 40.
C22_ClickDelayClamped ==
    dpc = "D377"
       => /\ d_delay >= 1
          /\ \E R \in {0 - d_lo, d_hi} :
                \E r \in (0 - R) .. R : d_delay = Max(1, d_base + r)
          /\ (d_base = 20 /\ d_lo = 0 - 20 /\ d_hi = 20)
                => d_delay \in 1 .. 40

\* With 20 and 20 the jitter has taken the sum to 0 and the sleep is 1 ms.
C22_Witness ==
    /\ dpc = "D377"
    /\ d_base = 20
    /\ d_lo = 0 - 20
    /\ d_hi = 20
    /\ d_delay = 1

\* C23: a mouse event that arrives while is_synth() holds leaves left_hold
\* and right_hold as they are; one that arrives otherwise sets the field of
\* the button it reports to the reported value and leaves the other field
\* alone.  (The steps that leave the guard alone are the callback's.)
C23_SyntheticEventsIgnored ==
    [][ UNCHANGED synthVars
          => \E btn \in Buttons, pressed \in BOOLEAN :
                /\ left_hold' = IF ~is_synth /\ btn = "left"
                                   THEN pressed ELSE left_hold
                /\ right_hold' = IF ~is_synth /\ btn = "right"
                                    THEN pressed ELSE right_hold ]_vars

\* Both buttons were pressed before a synthesis window opened; the window is
\* open and events can arrive.
C23_Witness ==
    /\ synth_guard > 0
    /\ left_hold
    /\ right_hold

\* C24: _choose_backend returns a backend and does not raise, and, unless
\* the caller asks for the controller library by name, it returns the WinAPI
\* backend wherever the low-level interface exists, a controller-library
\* backend only where it does not, and the no-op backend only where neither
\* can be used.
C24_BackendPreferenceOrder ==
    (bpc = "done" /\ b_arg # "pynput")
          => /\ backend \in {"WinAPI", "Pynput", "SimplePynput", "Dummy"}
             /\ win_ok => backend = "WinAPI"
             /\ backend \in {"Pynput", "SimplePynput"}
                   => (~win_ok /\ pynput_ok /\ ctor_ok)
             /\ backend = "Dummy" => (~win_ok /\ ~(pynput_ok /\ ctor_ok))

\* The firing condition as the state holds it now.
Firing == fire_enabled /\ right_hold /\ left_hold

\* C26: under fair scheduling of the loop, a firing condition that stays
\* true leads to Shooting, with the trigger key held if press_key_enabled;
\* one that stays false leads to Idle with the trigger released; the step
\* that enters Shooting resets the tick count and records the start time;
\* and a move is emitted only in Shooting.
C26_FiringLeadsToShooting ==
    /\ Firing ~> (~Firing \/ (shooting /\ (press_key_enabled => trigger_held)))
    /\ ~Firing ~> (Firing \/ (~shooting /\ ~trigger_held /\ keysDown = {}))
    /\ [][ /\ (~shooting /\ shooting')
              => (count' = 0 /\ start_time' \in PerfCounter)
           /\ (pc["L"] = "L240" /\ pc'["L"] = "L274") => shooting ]_vars

\* A session goes on with the key held, in its second iteration or later.
C26_Witness ==
    /\ Firing
    /\ shooting
    /\ press_key_enabled
    /\ trigger_held
    /\ pc["L"] = "L282"

\* C27: the loop calls key_down and move_mouse only in iterations whose
\* sample had fire_enabled, right_hold and left_hold all true; the sample is
\* the conjunction of the three as they are when line 205 runs.
C27_OutputOnlyWhenSampledFiring ==
    /\ [](pc["L"] \in {"E159", "E162", "E163", "L240"} => should_fire)
    /\ [][ /\ (pc["L"] = "L205" /\ pc'["L"] = "L221")
              => should_fire' = (fire_enabled /\ right_hold /\ left_hold)
           /\ (pc["L"] # "L205") => (should_fire' = should_fire) ]_vars

\* The user let go after the sample: the tick of this iteration is about to
\* emit its move although the condition no longer holds.
C27_Witness ==
    /\ pc["L"] = "L240"
    /\ should_fire
    /\ ~left_hold
    /\ trigger_held

\* C28: when an accessor raises, the iteration goes on with the firing
\* condition false: the loop is not ended, no move is emitted and no key
\* pressed in that iteration, and an engine that was Shooting is Idle with
\* the trigger released when the iteration reaches its idle sleep.
C28_AccessorFailureIsIdle ==
    /\ [](pc["L"] # "aborted")
    /\ [](~should_fire => pc["L"] \notin {"E159", "E162", "E163", "L240"})
    /\ []((pc["L"] = "L282" /\ ~should_fire)
             => (~shooting /\ ~trigger_held))
    /\ [][ (pc["L"] = "L205" /\ faults' # faults)
              => (pc'["L"] = "L221" /\ ~should_fire') ]_vars

\* The accessors have raised in the middle of a session: press_key_enabled
\* is off but was taken as on, and the session is about to be ended.
C28_Witness ==
    /\ pc["L"] = "L274"
    /\ shooting
    /\ ~should_fire
    /\ s_press
    /\ ~press_key_enabled
    /\ fire_enabled /\ right_hold /\ left_hold

\* C29: the key events that the backend receives for the trigger key
\* alternate: a key_down is issued only while the key is up and a key_up
\* only while it is down, however the loop and the UI thread's calls of
\* release_trigger() interleave.
C29_KeyEventsAlternate ==
    [][ \A t \in Threads :
           /\ (pc[t] = "E162" /\ pc'[t] = "E163") => trigger_key \notin keysDown
           /\ (pc[t] = "R172" /\ pc'[t] = "R176") => trigger_key \in keysDown
      ]_vars

\* C30: at the end of every iteration that leaves the engine Idle
\* _trigger_held is False and no trigger key is down, also while
\* set_trigger_key() or release_trigger() run on the UI thread.
C30_IdleIterationHoldsNoKey ==
    [][ (pc["L"] = "L282" /\ pc'["L"] = "L203" /\ ~shooting')
           => (~trigger_held' /\ keysDown' = {}) ]_vars

\* C31: a key_up that raises does not leave release_trigger as an error:
\* the finally clause runs and the helper returns with _trigger_held False.
\* A key_down that raises does not leave _ensure_trigger_down as an error:
\* the helper returns with _trigger_held False and nothing pressed, so the
\* next call of the helper, not finding the flag set, calls key_down again.
C31_TriggerHelpersAbsorbFailure ==
    /\ [](pc["L"] # "aborted")
    /\ [][ /\ (pc["L"] = "R172" /\ faults' # faults)
              => (pc'["L"] = "R176" /\ keysDown' = keysDown)
           /\ (pc["L"] \in {"R172", "R176"} /\ ~InHelper("L")')
              => (~trigger_held' /\ pc'["L"] = ret["L"])
           /\ (pc["L"] = "E162" /\ faults' # faults)
              => /\ ~trigger_held'
                 /\ keysDown' = keysDown
                 /\ pc'["L"] = ret["L"]
           /\ (pc["L"] = "E159" /\ ~trigger_held /\ pc'["L"] # "E159")
              => pc'["L"] = "E162" ]_vars

\* The key_down of the session's begin has raised; the tick's call of the
\* helper is about to issue key_down again.
C31_Witness ==
    /\ faults = 1
    /\ nDown = 0
    /\ shooting
    /\ ~trigger_held
    /\ pc["L"] = "E162"
    /\ ret["L"] = "L240"

\* C32: start() creates no thread while the engine is running, and whatever
\* the sequence of start() and stop() calls, at most one loop thread is
\* inside an iteration at any time.
C32_OneLoopThread ==
    /\ [](Cardinality({t \in LoopThreads : lpc[t] = "L204"}) <= 1)
    /\ [][ running => \A t \in LoopThreads :
                         lpc[t] = "unborn" => lpc'[t] = "unborn" ]_vars

\* C33: the guard filters per channel.  A press or release of the right
\* button that the observer reports while a synthetic left click is in
\* flight sets right_hold, and so a right_hold that differs from the
\* physical state of the right button does not stay so.
C33_RightChannelNotFiltered ==
    /\ [][ finger_r' # finger_r => right_hold' = finger_r' ]_vars
    /\ (right_hold # finger_r) ~> (right_hold = finger_r)

\* C34: once the list has been reloaded, the current profile is not a
\* record of the earlier list whose values differ from the reloaded record
\* of the same name: if the loaded list holds a record of its name, it
\* holds the current profile itself.
C34_CurrentProfileIsOfLoadedList ==
    \A w \in current_weapon :
       (\E i \in DOMAIN weapons : weapons[i].name = w.name)
          => (\E i \in DOMAIN weapons : weapons[i] = w)

====
